---- MODULE Spec2Model ----
(***************************************************************************)
(* Scenario and bundle synthesis of the scalable farmer example            *)
(* (mpisppy/agnostic/farmer4agnostic.py).                                  *)
(*                                                                         *)
(* Strings are sequences of one-character strings, so that formatting      *)
(* (f"scen{i}"), slicing (name[:4]), splitting and digit scraping are      *)
(* modelled by what they do.  Floating point yields are kept as the pair   *)
(* (base value times ten, identity of the draw added to it).               *)
(***************************************************************************)
EXTENDS Integers, Sequences, FiniteSets, TLC

VARIABLES
    farmerstream,        \* the module-level numpy RandomState: [seed, pos]
    bunsize,             \* global bunsize
    numbuns,             \* global numbuns
    original_num_scens,  \* global original_num_scens (None until a bundle_hack accepts)
    cfg,                 \* the run's configuration object
    roster,              \* the value returned by the latest scenario_names_creator call
    last,                \* observation of the latest scenario_creator call
    hack,                \* observation of the latest bundle_hack call
    mem,                 \* one remembered earlier standalone scenario_creator call
    pc,                  \* per thread: position inside scenario_creator
    frame                \* per thread: locals of its scenario_creator call

vars == <<farmerstream, bunsize, numbuns, original_num_scens, cfg, roster,
          last, hack, mem, pc, frame>>

-----------------------------------------------------------------------------
(* Bounds of the model *)

MaxScen == 3          \* scenario indexes 0..MaxScen are called directly
MaxNumScens == 6      \* cfg.num_scens ranges over 1..MaxNumScens
MaxBundleSize == 3    \* cfg.bundle_size ranges over 0..MaxBundleSize
MaxCropsMult == 2     \* crops_multiplier ranges over 1..MaxCropsMult
MaxSeedOffset == 1    \* seedoffset ranges over 0..MaxSeedOffset
MaxStart == 9         \* explicit start arguments of scenario_names_creator
MaxCount == 3         \* explicit count arguments of scenario_names_creator

\* Python's None where an integer may stand
None == -1

-----------------------------------------------------------------------------
(* Python string primitives *)

Digits == <<"0", "1", "2", "3", "4", "5", "6", "7", "8", "9">>

IsDigit(c) == \E d \in 1..10 : Digits[d] = c

DigitVal(c) == CHOOSE d \in 0..9 : Digits[d + 1] = c

\* str(n) / f"{n}" for n >= 0
RECURSIVE str(_)
str(n) == IF n < 10 THEN <<Digits[n + 1]>>
          ELSE str(n \div 10) \o <<Digits[(n % 10) + 1]>>

\* value of a non-empty sequence of digits
RECURSIVE DigitsValue(_)
DigitsValue(s) == IF Len(s) = 0 THEN 0
                  ELSE 10 * DigitsValue(SubSeq(s, 1, Len(s) - 1)) + DigitVal(s[Len(s)])

\* int(s): the value, or None where Python raises ValueError
int(s) == IF Len(s) > 0 /\ \A k \in 1..Len(s) : IsDigit(s[k])
          THEN DigitsValue(s) ELSE None

\* s.rstrip("0123456789")
RECURSIVE rstrip(_)
rstrip(s) == IF Len(s) > 0 /\ IsDigit(s[Len(s)])
             THEN rstrip(SubSeq(s, 1, Len(s) - 1)) ELSE s

\* sputils.extract_num: the integer made of the trailing digits, None without any
extract_num(s) == LET stem == rstrip(s)
                  IN  IF Len(stem) = Len(s) THEN None
                      ELSE DigitsValue(SubSeq(s, Len(stem) + 1, Len(s)))

\* s[:4]
Prefix4(s) == SubSeq(s, 1, IF Len(s) < 4 THEN Len(s) ELSE 4)

\* s.split("_")
RECURSIVE split(_)
split(s) ==
    IF \A k \in 1..Len(s) : s[k] # "_" THEN <<s>>
    ELSE LET k == CHOOSE j \in 1..Len(s) :
                      s[j] = "_" /\ \A h \in 1..(j - 1) : s[h] # "_"
         IN  <<SubSeq(s, 1, k - 1)>> \o split(SubSeq(s, k + 1, Len(s)))

scen == <<"s", "c", "e", "n">>
Scen == <<"S", "c", "e", "n">>
bund == <<"b", "u", "n", "d">>
Bund == <<"B", "u", "n", "d">>
bundle_ == <<"b", "u", "n", "d", "l", "e", "_">>

-----------------------------------------------------------------------------
(* The random stream: numpy's generator is a deterministic function of the   *)
(* seed it was given and of the number of draws made since.                  *)

seed(s) == [seed |-> s, pos |-> 0]

rand(st) == [val |-> <<st.seed, st.pos>>, stream |-> [st EXCEPT !.pos = @ + 1]]

\* RandomState() without a seed takes it from the operating system
EntropySeeds == {-2, -3}

-----------------------------------------------------------------------------
(* pysp_instance_creation_callback *)

BelowAverageScenario ==
    <<"B","e","l","o","w","A","v","e","r","a","g","e","S","c","e","n","a","r","i","o">>
AverageScenario ==
    <<"A","v","e","r","a","g","e","S","c","e","n","a","r","i","o">>
AboveAverageScenario ==
    <<"A","b","o","v","e","A","v","e","r","a","g","e","S","c","e","n","a","r","i","o">>

basenames == <<BelowAverageScenario, AverageScenario, AboveAverageScenario>>

WHEAT == <<"W","H","E","A","T">>
CORN == <<"C","O","R","N">>
SUGAR_BEETS == <<"S","U","G","A","R","_","B","E","E","T","S">>

\* the Yield table, in tenths
Yield(scenario_base_name, crop_base_name) ==
    CASE scenario_base_name = BelowAverageScenario ->
            (CASE crop_base_name = WHEAT -> 20
               [] crop_base_name = CORN -> 24
               [] crop_base_name = SUGAR_BEETS -> 160)
      [] scenario_base_name = AverageScenario ->
            (CASE crop_base_name = WHEAT -> 25
               [] crop_base_name = CORN -> 30
               [] crop_base_name = SUGAR_BEETS -> 200)
      [] scenario_base_name = AboveAverageScenario ->
            (CASE crop_base_name = WHEAT -> 30
               [] crop_base_name = CORN -> 36
               [] crop_base_name = SUGAR_BEETS -> 240)

RECURSIVE crops_from(_, _)
crops_from(i, crops_multiplier) ==
    IF i >= crops_multiplier THEN <<>>
    ELSE <<WHEAT \o str(i), CORN \o str(i), SUGAR_BEETS \o str(i)>>
         \o crops_from(i + 1, crops_multiplier)

crops_init(crops_multiplier) == crops_from(0, crops_multiplier)

\* Yield_init drawing for every replicate group
Yield_init_always(scenario_base_name, scengroupnum, cropname, st) ==
    [val |-> [crop |-> cropname,
              base |-> Yield(scenario_base_name, rstrip(cropname)),
              pert |-> rand(st).val],
     stream |-> rand(st).stream, draws |-> 1]

\* one call of the Param initializer: the value for cropname and the stream after it
Yield_init(scenario_base_name, scengroupnum, cropname, st) ==
    LET crop_base_name == rstrip(cropname)
        base == Yield(scenario_base_name, crop_base_name)
    IN  IF scengroupnum # 0
        THEN [val |-> [crop |-> cropname, base |-> base, pert |-> rand(st).val],
              stream |-> rand(st).stream, draws |-> 1]
        ELSE [val |-> [crop |-> cropname, base |-> base, pert |-> <<>>],
              stream |-> st, draws |-> 0]

\* the Param with one more value
AddYield(acc, one) ==
    [stream |-> one.stream, draws |-> acc.draws + one.draws, vals |-> Append(acc.vals, one.val)]

\* pyo.Param(model.CROPS, initialize=Yield_init): one call per crop, in CROPS order
RECURSIVE YieldParam(_, _, _, _)
YieldParam(scenario_base_name, scengroupnum, crops, acc) ==
    IF Len(crops) = 0 THEN acc
    ELSE YieldParam(scenario_base_name, scengroupnum, Tail(crops),
                    AddYield(acc, Yield_init(scenario_base_name, scengroupnum,
                                             Head(crops), acc.stream)))

NoProb == <<"unset", 0>>

NoModel == [Yield |-> <<>>,
            kind |-> "none",
            name |-> <<>>,
            integer |-> FALSE,
            sense |-> "",
            prob |-> NoProb,
            members |-> <<>>]

\* the model made of the Param
ConcreteModel(scenario_name, use_integer, sense, y) ==
    [stream |-> y.stream,
     draws |-> y.draws,
     model |-> [Yield |-> y.vals,
                kind |-> "scenario",
                name |-> scenario_name,
                integer |-> use_integer,
                sense |-> sense,
                prob |-> NoProb,
                members |-> <<>>]]

pysp_instance_creation_callback(scenario_name, use_integer, sense, crops_multiplier, st) ==
    LET scengroupnum == extract_num(scenario_name)
        scenario_base_name == rstrip(scenario_name)
        CROPS == crops_init(crops_multiplier)
    IN  ConcreteModel(scenario_name, use_integer, sense,
                      YieldParam(scenario_base_name, scengroupnum, CROPS,
                                 [stream |-> st, draws |-> 0, vals |-> <<>>]))

-----------------------------------------------------------------------------
(* scenario_creator and sputils.create_EF *)

Fail(error, st, seeds, draws) ==
    [stream |-> st, draws |-> draws, model |-> NoModel, seeds |-> seeds, outcome |-> error]

\* any <str><int> taken for a scenario name
IsScenName_any(scenario_name) ==
    Len(scenario_name) > 0 /\ IsDigit(scenario_name[Len(scenario_name)])

IsScenName(scenario_name) ==
    scen = Prefix4(scenario_name) \/ Scen = Prefix4(scenario_name)

IsBundName(scenario_name) ==
    bund = Prefix4(scenario_name) \/ Bund = Prefix4(scenario_name)

\* the range assertion off by one
BundleRangeOK_off(firstnum, lastnum) == (lastnum - firstnum) = bunsize

\* the assertion on the range of a bundle name
BundleRangeOK(firstnum, lastnum) == (lastnum - firstnum + 1) = bunsize

\* the assertion on num_scens of the bundle branch
BundleCountOK(num_scens) == num_scens % bunsize # 0

\* the seedoffset handed to the members of a bundle
BundleSeedOffset(seedoffset, firstnum) == seedoffset + firstnum

\* scenario_creator without its call of farmerstream.seed
reseed_missing(st, scennum, seedoffset) == st

\* farmerstream.seed(scennum+seedoffset)
reseed(st, scennum, seedoffset) == seed(scennum + seedoffset)

RECURSIVE snames_from(_, _)
snames_from(i, lastnum) ==
    IF i > lastnum THEN <<>> ELSE <<scen \o str(i)>> \o snames_from(i + 1, lastnum)

\* the extensive form before any member is built
EmptyEF(st) ==
    [stream |-> st,
     draws |-> 0,
     model |-> [NoModel EXCEPT !.kind = "EF"],
     seeds |-> <<>>,
     outcome |-> "ok"]

\* the extensive form with one more member, or the member's failure
AddMember(ef, one) ==
    IF one.outcome # "ok"
    THEN Fail(one.outcome, one.stream, ef.seeds \o one.seeds, ef.draws + one.draws)
    ELSE [stream |-> one.stream,
          draws |-> ef.draws + one.draws,
          model |-> [ef.model EXCEPT !.members = Append(@, one.model)],
          seeds |-> ef.seeds \o one.seeds,
          outcome |-> "ok"]

\* the bundle made of a finished extensive form, with its probability
AttachBundle(scenario_name, kw, ef) ==
    IF ef.outcome # "ok" THEN ef
    ELSE IF numbuns = 0
    THEN Fail("ZeroDivisionError", ef.stream, ef.seeds, ef.draws)
    ELSE [ef EXCEPT !.model =
              [Yield |-> <<>>,
               kind |-> "bundle",
               name |-> scenario_name,
               integer |-> kw.use_integer,
               sense |-> kw.sense,
               prob |-> <<"value", numbuns>>,
               members |-> ef.model.members]]

RECURSIVE scenario_creator(_, _, _), create_EF(_, _, _)

\* the model with its probability
AttachProbability(built, num_scens, s) ==
    IF num_scens = 0
    THEN Fail("ZeroDivisionError", built.stream, <<s>>, built.draws)
    ELSE [stream |-> built.stream,
          draws |-> built.draws,
          model |-> [built.model EXCEPT !.prob =
                         IF num_scens # None THEN <<"value", num_scens>>
                         ELSE <<"uniform", 0>>],
          seeds |-> <<s>>,
          outcome |-> "ok"]

\* the scen branch
ScenarioBranch(scenario_name, kw, st) ==
    LET scennum == extract_num(scenario_name)
    IN  IF scennum = None THEN Fail("InvalidNameError", st, <<>>, 0)
        ELSE
        LET basenum == scennum % 3
            groupnum == scennum \div 3
            scenname == basenames[basenum + 1] \o str(groupnum)
            st1 == reseed(st, scennum, kw.seedoffset)
        IN  IF kw.sense \notin {"minimize", "maximize"}
            THEN Fail("ValueError", st1, <<st1.seed>>, 0)
            ELSE AttachProbability(
                     pysp_instance_creation_callback(
                         scenname, kw.use_integer, kw.sense, kw.crops_multiplier, st1),
                     kw.num_scens, st1.seed)

\* the bund branch
BundleBranch(scenario_name, kw, st) ==
    LET parts == split(scenario_name)
    IN  IF Len(parts) < 3 THEN Fail("IndexError", st, <<>>, 0)
        ELSE
        LET firstnum == int(parts[2])
            lastnum == int(parts[3])
        IN  IF firstnum = None \/ lastnum = None THEN Fail("ValueError", st, <<>>, 0)
            ELSE IF ~BundleRangeOK(firstnum, lastnum)
            THEN Fail("AssertionError", st, <<>>, 0)
            ELSE IF kw.num_scens = None THEN Fail("TypeError", st, <<>>, 0)
            ELSE IF bunsize = 0 THEN Fail("ZeroDivisionError", st, <<>>, 0)
            ELSE IF ~BundleCountOK(kw.num_scens) THEN Fail("AssertionError", st, <<>>, 0)
            ELSE
            LET snames == snames_from(firstnum, lastnum)
                bunkwargs == [crops_multiplier |-> kw.crops_multiplier,
                              sense |-> kw.sense,
                              use_integer |-> kw.use_integer,
                              num_scens |-> None,
                              seedoffset |-> BundleSeedOffset(kw.seedoffset, firstnum)]
            IN  AttachBundle(scenario_name, kw, create_EF(snames, bunkwargs, EmptyEF(st)))

scenario_creator(scenario_name, kw, st) ==
    IF IsScenName(scenario_name) THEN ScenarioBranch(scenario_name, kw, st)
    ELSE IF IsBundName(scenario_name) THEN BundleBranch(scenario_name, kw, st)
    ELSE Fail("RuntimeError", st, <<>>, 0)

\* sputils.create_EF: the members are built one after the other by scenario_creator,
\* each on the stream as the one before left it; the first failure is propagated
create_EF(snames, kwargs, ef) ==
    IF Len(snames) = 0 \/ ef.outcome # "ok" THEN ef
    ELSE create_EF(Tail(snames), kwargs,
                   AddMember(ef, scenario_creator(Head(snames), kwargs, ef.stream)))

-----------------------------------------------------------------------------
(* helper functions *)

RECURSIVE scen_names(_, _)
scen_names(i, stop) ==
    IF i >= stop THEN <<>> ELSE <<scen \o str(i)>> \o scen_names(i + 1, stop)

\* bundle names whose range is one too long
RECURSIVE bundle_names_off(_, _)
bundle_names_off(i, stop) ==
    IF i >= stop THEN <<>>
    ELSE <<bundle_ \o str(i * bunsize) \o <<"_">> \o str((i + 1) * bunsize)>>
         \o bundle_names_off(i + 1, stop)

RECURSIVE bundle_names(_, _)
bundle_names(i, stop) ==
    IF i >= stop THEN <<>>
    ELSE <<bundle_ \o str(i * bunsize) \o <<"_">> \o str((i + 1) * bunsize - 1)>>
         \o bundle_names(i + 1, stop)

\* names up to num_scens instead of num_scens names
scenario_names_creator_upto(num_scens, start) ==
    LET start0 == IF start = None THEN 0 ELSE start
    IN  IF bunsize = 0 THEN scen_names(start0, num_scens)
        ELSE bundle_names(start0, num_scens)

\* start = None is the default argument
scenario_names_creator(num_scens, start) ==
    LET start0 == IF start = None THEN 0 ELSE start
    IN  IF bunsize = 0 THEN scen_names(start0, start0 + num_scens)
        ELSE bundle_names(start0, start0 + num_scens)

kw_creator(c) ==
    [crops_multiplier |-> c.crops_multiplier,
     use_integer |-> c.farmer_with_integers,
     num_scens |-> c.num_scens]

\* the keyword defaults of scenario_creator's signature
Defaults == [crops_multiplier |-> 1,
             sense |-> "minimize",
             use_integer |-> FALSE,
             num_scens |-> None,
             seedoffset |-> 0]

\* scenario_creator(name, **kwargs): the arguments of the call
WithDefaults(kwargs) ==
    [k \in DOMAIN Defaults |-> IF k \in DOMAIN kwargs THEN kwargs[k] ELSE Defaults[k]]

\* bundle_hack without its divisibility assertion
bundle_hack_nodiv(c) ==
    IF c.bundle_size > 1
    THEN [bunsize |-> c.bundle_size,
          numbuns |-> c.num_scens \div c.bundle_size,
          original_num_scens |-> c.num_scens,
          cfg |-> [c EXCEPT !.num_scens = c.num_scens \div c.bundle_size],
          outcome |-> "ok"]
    ELSE [bunsize |-> bunsize,
          numbuns |-> numbuns,
          original_num_scens |-> original_num_scens,
          cfg |-> c,
          outcome |-> "ok"]

\* bundle_hack(c): the globals and the configuration object after the call
bundle_hack(c) ==
    IF c.bundle_size > 1
    THEN IF c.num_scens % c.bundle_size # 0
         THEN [bunsize |-> bunsize,
               numbuns |-> numbuns,
               original_num_scens |-> original_num_scens,
               cfg |-> c,
               outcome |-> "AssertionError"]
         ELSE [bunsize |-> c.bundle_size,
               numbuns |-> c.num_scens \div c.bundle_size,
               original_num_scens |-> c.num_scens,
               cfg |-> [c EXCEPT !.num_scens = c.num_scens \div c.bundle_size],
               outcome |-> "ok"]
    ELSE [bunsize |-> bunsize,
          numbuns |-> numbuns,
          original_num_scens |-> original_num_scens,
          cfg |-> c,
          outcome |-> "ok"]

-----------------------------------------------------------------------------
(* Inputs *)

Cfgs(mults) ==
    [crops_multiplier : mults,
     num_scens : 1..MaxNumScens,
     farmer_with_integers : {FALSE},
     bundle_size : 0..MaxBundleSize]

ScenNames == {scen \o str(i) : i \in 0..MaxScen} \cup {Scen \o str(3)}

BundleNames ==
    {bundle_ \o str(f) \o <<"_">> \o str(f + d) : f \in 0..1, d \in 1..MaxBundleSize}

BadNames ==
    { <<"f","o","o">>, scen, <<"S","C","E","N","3">>, <<"s","c","e","3">>,
      <<"s","c","e","n","3","x">>, bund, <<>> }

\* keyword arguments of successful calls: each multiplier, each seed offset
GoodKwargs ==
    {[crops_multiplier |-> m, num_scens |-> 2 * MaxBundleSize - 1] :
        m \in 1..MaxCropsMult}
    \cup {[num_scens |-> 2 * MaxBundleSize - 1, seedoffset |-> o] :
            o \in 1..MaxSeedOffset}

Kwargs == GoodKwargs \cup {[sense |-> "other"], [sense |-> "maximize"]}

Threads == {1, 2}

-----------------------------------------------------------------------------
(* Initial state: the module has just been imported *)

NoCall == [bunsize |-> 0,
           draws |-> 0,
           name |-> <<>>,
           model |-> NoModel,
           seeds |-> <<>>,
           outcome |-> "none",
           kw |-> Defaults,
           op |-> "none",
           streamSame |-> TRUE,
           globalsSame |-> TRUE,
           remembered |-> FALSE]

NoHack == [outcome |-> "none",
           num_scens |-> 0,
           bundle_size |-> 0,
           globalsSame |-> TRUE,
           calls |-> 0,
           cfgSame |-> TRUE]

NoMem == [Yield |-> <<>>, name |-> <<>>, seeds |-> <<>>, kw |-> Defaults, set |-> FALSE]

NoRoster == [bunsize |-> 0, num_scens |-> 0, start |-> None, names |-> <<>>]

NoFrame == [Yield |-> <<>>,
            crops |-> <<>>,
            name |-> <<>>,
            scennum |-> None,
            kw |-> Defaults,
            scenname |-> <<>>]

InitWith(mults) ==
    /\ farmerstream \in {seed(e) : e \in EntropySeeds}
    /\ bunsize = 0
    /\ numbuns = 0
    /\ original_num_scens = None
    /\ cfg \in Cfgs(mults)
    /\ roster = NoRoster
    /\ last = NoCall
    /\ hack = NoHack
    /\ mem = NoMem
    /\ pc = [t \in Threads |-> "idle"]
    /\ frame = [t \in Threads |-> NoFrame]

Init == InitWith({1})

\* the configurations whose initialization the direct calls follow
InitCalls ==
    /\ Init
    /\ cfg.bundle_size # 1
    /\ cfg.num_scens = IF cfg.bundle_size = 0 THEN MaxNumScens ELSE 2 * cfg.bundle_size

-----------------------------------------------------------------------------
(* Operations *)

\* the configuration loader hands over a new configuration object
Configure(c) ==
    /\ cfg' = c
    /\ hack' = [hack EXCEPT !.calls = 0]
    /\ UNCHANGED <<farmerstream, bunsize, numbuns, original_num_scens, roster,
                   last, mem, pc, frame>>

BundleHack ==
    \E r \in {bundle_hack(cfg)} :
        /\ bunsize' = r.bunsize
        /\ numbuns' = r.numbuns
        /\ original_num_scens' = r.original_num_scens
        /\ cfg' = r.cfg
        /\ hack' = [outcome |-> r.outcome,
                    num_scens |-> cfg.num_scens,
                    bundle_size |-> cfg.bundle_size,
                    globalsSame |-> <<r.bunsize, r.numbuns, r.original_num_scens>>
                                    = <<bunsize, numbuns, original_num_scens>>,
                    calls |-> IF hack.calls < 2 THEN hack.calls + 1 ELSE 2,
                    cfgSame |-> r.cfg = cfg]
        /\ UNCHANGED <<farmerstream, roster, last, mem, pc, frame>>

NamesCreator(num_scens, start) ==
    /\ roster' = [bunsize |-> bunsize,
                  num_scens |-> num_scens,
                  start |-> start,
                  names |-> scenario_names_creator(num_scens, start)]
    /\ UNCHANGED <<farmerstream, bunsize, numbuns, original_num_scens, cfg,
                   last, hack, mem, pc, frame>>

\* one complete scenario_creator call on the shared stream
Call(op, scenario_name, kwargs, remember) ==
    \E kw \in {WithDefaults(kwargs)} :
      \E r \in {scenario_creator(scenario_name, kw, farmerstream)} :
        /\ UNCHANGED <<bunsize, numbuns, original_num_scens, cfg, roster, hack, pc, frame>>
        /\ farmerstream' = r.stream
        /\ last' = [bunsize |-> bunsize,
                    draws |-> r.draws,
                    name |-> scenario_name,
                    model |-> r.model,
                    seeds |-> r.seeds,
                    outcome |-> r.outcome,
                    kw |-> kw,
                    op |-> op,
                    streamSame |-> r.stream = farmerstream,
                    globalsSame |-> <<bunsize', numbuns', original_num_scens'>>
                                    = <<bunsize, numbuns, original_num_scens>>,
                    remembered |-> remember]
        /\ mem' = IF remember /\ r.outcome = "ok" /\ r.model.kind = "scenario"
                  THEN [Yield |-> r.model.Yield,
                        name |-> scenario_name,
                        seeds |-> r.seeds,
                        kw |-> kw,
                        set |-> TRUE]
                  ELSE mem

\* scenario_creator called by name with explicit keyword arguments
DirectCall ==
    \E n \in ScenNames \cup BundleNames, kw \in Kwargs :
        Call("direct", n, kw, FALSE)

\* scenario_creator called with a name of neither form
BadNameCall ==
    \E n \in BadNames, kw \in {[sense |-> "maximize"], [seedoffset |-> MaxSeedOffset]} :
        Call("direct", n, kw, FALSE)

\* the bundle names of the current partition (scenario names without bundling)
PartitionNames ==
    UNION { {scenario_names_creator(1, s)[1]} : s \in 0..1 }

\* valid calls in any order: scenarios, bundles of the partition, any sense
RepeatCall ==
    \E n \in {scen \o str(i) : i \in 0..MaxScen} \cup PartitionNames,
       kw \in GoodKwargs \cup {[sense |-> "other"]} :
        Call("direct", n, kw, FALSE)

\* a standalone scenario whose data the observer keeps for later comparison
RememberedCall ==
    \E n \in {scen \o str(i) : i \in {0, MaxScen}}, kw \in GoodKwargs :
        Call("direct", n, kw, TRUE)

\* the names of the run: scenario_names_creator(cfg.num_scens)
RunNames == NamesCreator(cfg.num_scens, None)

\* scenario_names_creator with explicit arguments
SomeNames ==
    \E n \in 0..MaxCount, s \in {None, 0, 1, MaxStart} : NamesCreator(n, s)

\* the run builds one name of its roster: scenario_creator(name, **kw_creator(cfg))
CreateFromRoster ==
    \E k \in 1..Len(roster.names) :
        Call("roster", roster.names[k], kw_creator(cfg), FALSE)

SomeCfg == \E c \in Cfgs({1}) : Configure(c)

-----------------------------------------------------------------------------
(* Two threads inside scenario_creator on the one module-level stream.  The  *)
(* interpreter switches threads between calls on the stream, never inside.   *)

ThreadCall(t) ==
    \E n \in {scen \o str(i) : i \in 0..MaxScen},
       kwargs \in [seedoffset : 0..MaxSeedOffset] :
        /\ pc[t] = "idle"
        /\ pc' = [pc EXCEPT ![t] = "seed"]
        /\ frame' = [frame EXCEPT ![t] =
                        [NoFrame EXCEPT !.name = n, !.kw = WithDefaults(kwargs),
                                        !.scennum = extract_num(n)]]
        /\ UNCHANGED <<farmerstream, bunsize, numbuns, original_num_scens, cfg,
                       roster, last, hack, mem>>

\* farmerstream.seed(scennum+seedoffset), then the model's crops are made
ThreadSeed(t) ==
    /\ pc[t] = "seed"
    /\ farmerstream' = reseed(farmerstream, frame[t].scennum, frame[t].kw.seedoffset)
    /\ pc' = [pc EXCEPT ![t] = "yield"]
    /\ frame' = [frame EXCEPT ![t] =
                    [@ EXCEPT !.scenname = basenames[(frame[t].scennum % 3) + 1]
                                           \o str(frame[t].scennum \div 3),
                              !.crops = crops_init(frame[t].kw.crops_multiplier)]]
    /\ UNCHANGED <<bunsize, numbuns, original_num_scens, cfg, roster, last, hack, mem>>

\* one call of Yield_init
ThreadYield(t) ==
    /\ pc[t] = "yield"
    /\ frame[t].crops # <<>>
    /\ \E one \in {Yield_init(rstrip(frame[t].scenname), extract_num(frame[t].scenname),
                              Head(frame[t].crops), farmerstream)} :
          /\ farmerstream' = one.stream
          /\ frame' = [frame EXCEPT ![t] =
                          [@ EXCEPT !.crops = Tail(@), !.Yield = Append(@, one.val)]]
    /\ pc' = pc
    /\ UNCHANGED <<bunsize, numbuns, original_num_scens, cfg, roster, last, hack, mem>>

ThreadReturn(t) ==
    /\ pc[t] = "yield"
    /\ frame[t].crops = <<>>
    /\ pc' = [pc EXCEPT ![t] = "done"]
    /\ UNCHANGED <<farmerstream, bunsize, numbuns, original_num_scens, cfg,
                   roster, last, hack, mem, frame>>

-----------------------------------------------------------------------------
(* Specifications *)

\* initialization of runs and their rosters
Next == SomeCfg \/ BundleHack \/ RunNames

Spec == Init /\ [][Next]_vars

\* names for explicit counts and starts
NextNames == BundleHack \/ SomeNames

SpecNames == Init /\ [][NextNames]_vars

\* one run: initialization, roster, one object per roster name
InitRun == InitWith(1..MaxCropsMult)

NextRun == BundleHack \/ RunNames \/ CreateFromRoster

SpecRun == InitRun /\ [][NextRun]_vars

\* scenario_creator called directly, in any order, with any name
NextCalls == BundleHack \/ DirectCall \/ BadNameCall

SpecCalls == InitCalls /\ [][NextCalls]_vars

\* valid calls in any order, one earlier standalone call remembered
NextRepeat == BundleHack \/ RepeatCall \/ RememberedCall

SpecRepeat == InitCalls /\ [][NextRepeat]_vars

\* concurrent scenario_creator calls
SomeThreadCall == \E t \in Threads : ThreadCall(t)

SomeThreadSeed == \E t \in Threads : ThreadSeed(t)

SomeThreadYield == \E t \in Threads : ThreadYield(t)

SomeThreadReturn == \E t \in Threads : ThreadReturn(t)

NextThreads == SomeThreadCall \/ SomeThreadSeed \/ SomeThreadYield \/ SomeThreadReturn

InitThreads == Init /\ cfg.num_scens = 1 /\ cfg.bundle_size = 0

SpecThreads == InitThreads /\ [][NextThreads]_vars

-----------------------------------------------------------------------------
(* Properties *)

Range(q) == {q[k] : k \in 1..Len(q)}

\* a scenario name as the callers know it: scen or Scen, then trailing digits
ScenarioNameForm(n) ==
    /\ Prefix4(n) \in {scen, Scen}
    /\ IsDigit(n[Len(n)])

\* a bundle name as the callers know it: the bund or Bund prefix
BundleNameForm(n) == Prefix4(n) \in {bund, Bund}

\* a bundle name bundle_<first>_<last>
BundleRangeForm(n) ==
    /\ BundleNameForm(n)
    /\ Len(split(n)) = 3
    /\ int(split(n)[2]) # None
    /\ int(split(n)[3]) # None

FirstOf(n) == int(split(n)[2])

LastOf(n) == int(split(n)[3])

Called == last.op # "none"

Failed == last.outcome \notin {"ok", "none"}

\* the latest call left no trace: no result, no reseed, no draw, globals as before
NoSideEffect ==
    /\ last.model = NoModel
    /\ last.seeds = <<>>
    /\ last.draws = 0
    /\ last.streamSame
    /\ last.globalsSame

\* the crop at 0-based position j of the documented order
CropAt(j) == <<WHEAT, CORN, SUGAR_BEETS>>[(j % 3) + 1] \o str(j \div 3)

\* C1: a bundle member for index j receives the seed, and so the yields, of a
\* standalone scenario_creator("scen<j>") call with the same seedoffset
C1_BundleSeedsAsStandalone ==
    (/\ mem.set
     /\ Called
     /\ last.outcome = "ok"
     /\ last.model.kind = "bundle"
     /\ last.kw.seedoffset = mem.kw.seedoffset
     /\ last.kw.crops_multiplier = mem.kw.crops_multiplier
     /\ extract_num(mem.name) \in FirstOf(last.name)..LastOf(last.name))
    => LET k == extract_num(mem.name) - FirstOf(last.name) + 1
       IN  /\ last.seeds[k] = mem.seeds[1]
           /\ last.model.members[k].Yield = mem.Yield

\* C2: a scenario_creator call with the name and configuration of an earlier call
\* succeeds with the same yields, whatever was called in between
C2_SequentialDeterminism ==
    (mem.set /\ Called /\ last.name = mem.name /\ last.kw = mem.kw)
    => /\ last.outcome = "ok"
       /\ last.model.Yield = mem.Yield

C2_Witness ==
    /\ mem.set /\ Called /\ ~last.remembered
    /\ last.name = mem.name /\ last.kw = mem.kw
    /\ last.draws > 0

\* C3: a scenario built while another thread builds one has the yields it has when
\* built alone
C3_ThreadReproducible ==
    \A t \in Threads :
        pc[t] = "done"
        => frame[t].Yield
           = scenario_creator(frame[t].name, frame[t].kw, farmerstream).model.Yield

\* the roster is the one of the initialized run
RunRoster ==
    /\ hack.calls = 1
    /\ hack.outcome = "ok"
    /\ roster.names # <<>>
    /\ roster.num_scens = cfg.num_scens
    /\ roster.start = None
    /\ roster.bunsize = bunsize

\* C4: every roster name of an initialized run is created and has probability
\* 1/(roster length): 1/N without bundles, 1/(N/B) with bundles of size B
C4_RosterProbabilities ==
    (/\ RunRoster
     /\ last.op = "roster"
     /\ last.name \in Range(roster.names)
     /\ last.kw = WithDefaults(kw_creator(cfg)))
    => /\ last.outcome = "ok"
       /\ last.model.prob = <<"value", Len(roster.names)>>
       /\ Len(roster.names) = IF hack.bundle_size <= 1 THEN hack.num_scens
                              ELSE hack.num_scens \div hack.bundle_size

\* C5: a bundle name whose range length is not the bundle size fails before any
\* member is built: no reseed, no draw, no global changed
C5_BundleValidity ==
    (/\ Called
     /\ BundleRangeForm(last.name)
     /\ LastOf(last.name) - FirstOf(last.name) + 1 # last.bunsize)
    => Failed /\ NoSideEffect

C5_Witness ==
    /\ Called
    /\ BundleRangeForm(last.name)
    /\ last.bunsize > 1
    /\ LastOf(last.name) - FirstOf(last.name) + 1 = last.bunsize + 1
    /\ farmerstream.seed >= 0
    /\ Failed

\* C6: without bundling the i-th name of scenario_names_creator(n, s) is scen<s+i>,
\* is taken for a scenario name, and resolves to the index s+i
C6_NameRoundTrip ==
    roster.bunsize = 0
    => LET s0 == IF roster.start = None THEN 0 ELSE roster.start
       IN  /\ Len(roster.names) = roster.num_scens
           /\ \A i \in 0..(roster.num_scens - 1) :
                 /\ roster.names[i + 1] = scen \o str(s0 + i)
                 /\ IsScenName(roster.names[i + 1])
                 /\ extract_num(roster.names[i + 1]) = s0 + i

C6_Witness ==
    /\ roster.bunsize = 0
    /\ roster.start = MaxStart
    /\ Len(roster.names) >= 2
    /\ Len(roster.names[2]) > Len(scen) + 1

\* C7: a scenario of replicate group 0 consumes no draw, leaves the stream freshly
\* reseeded and has the base yields; one of a later group consumes one draw per
\* crop, in the order WHEAT<k>, CORN<k>, SUGAR_BEETS<k>
C7_DrawConsumption ==
    (Called /\ last.outcome = "ok" /\ last.model.kind = "scenario")
    => LET i == extract_num(last.name)
           n == 3 * last.kw.crops_multiplier
           s == i + last.kw.seedoffset
           Y == last.model.Yield
       IN  /\ Len(Y) = n
           /\ \A k \in 1..n :
                 /\ Y[k].crop = CropAt(k - 1)
                 /\ Y[k].base = Yield(basenames[(i % 3) + 1], rstrip(CropAt(k - 1)))
           /\ IF i \div 3 = 0
              THEN /\ last.draws = 0
                   /\ farmerstream = [seed |-> s, pos |-> 0]
                   /\ \A k \in 1..n : Y[k].pert = <<>>
              ELSE /\ last.draws = n
                   /\ farmerstream = [seed |-> s, pos |-> n]
                   /\ \A k \in 1..n : Y[k].pert = <<s, k - 1>>

C7_Witness ==
    /\ Called /\ last.outcome = "ok" /\ last.model.kind = "scenario"
    /\ extract_num(last.name) \div 3 > 0
    /\ last.kw.crops_multiplier > 1
    /\ last.draws = 3 * last.kw.crops_multiplier

C9_InitializationInvariant ==
    /\ \/ (bunsize = 0 /\ numbuns = 0 /\ original_num_scens = None)
       \/ (bunsize > 1 /\ numbuns * bunsize = original_num_scens)
    /\ (hack.calls > 0 /\ hack.outcome = "ok" /\ hack.bundle_size > 1)
       => (cfg.num_scens = numbuns /\ bunsize = hack.bundle_size
           /\ original_num_scens = hack.num_scens)
    /\ (hack.outcome # "none" /\ hack.bundle_size <= 1)
       => (hack.outcome = "ok" /\ hack.globalsSame /\ hack.cfgSame)
    /\ (hack.outcome # "none" /\ hack.bundle_size > 1
        /\ hack.num_scens % hack.bundle_size # 0)
       => (hack.outcome = "AssertionError" /\ hack.globalsSame /\ hack.cfgSame)

C9_Witness ==
    /\ bunsize > 1
    /\ hack.outcome = "AssertionError"
    /\ cfg.num_scens # numbuns

\* C10: after an accepted bundle_hack the run's roster has N/B names
\* bundle_<i*B>_<(i+1)*B-1>, each passing the range assertion, whose ranges are
\* contiguous, disjoint and cover 0..N-1
C10_BundlePartition ==
    (/\ bunsize > 1
     /\ roster.bunsize = bunsize
     /\ roster.start = None
     /\ roster.num_scens = numbuns)
    => LET names == roster.names
           N == original_num_scens
       IN  /\ Len(names) * bunsize = N
           /\ \A i \in 1..Len(names) :
                 /\ BundleRangeForm(names[i])
                 /\ split(names[i])[1] = <<"b", "u", "n", "d", "l", "e">>
                 /\ FirstOf(names[i]) = (i - 1) * bunsize
                 /\ LastOf(names[i]) = i * bunsize - 1
                 /\ BundleRangeOK(FirstOf(names[i]), LastOf(names[i]))
                 /\ i > 1 => FirstOf(names[i]) = LastOf(names[i - 1]) + 1
           /\ \A j \in 0..(N - 1) :
                 Cardinality({i \in 1..Len(names) :
                                 FirstOf(names[i]) <= j /\ j <= LastOf(names[i])}) = 1
           /\ \A i \in 1..Len(names) : LastOf(names[i]) <= N - 1

C10_Witness ==
    /\ bunsize > 1
    /\ roster.bunsize = bunsize
    /\ roster.start = None
    /\ roster.num_scens = numbuns
    /\ Len(roster.names) >= 3

====
